---- MODULE Spec2Model ----
(***************************************************************************)
(* Model of src/meanRev2.py: the AutoTrader pairs-trading strategy.        *)
(* State is the AutoTrader instance; one action per message handler.       *)
(* A price level is the pair <<price, volume>> (Python index 0 and 1 are   *)
(* TLA+ index 1 and 2); a ladder is a sequence of price levels.            *)
(***************************************************************************)
EXTENDS Integers, Sequences, FiniteSets, TLC

\* ---- bounds of the model ----
Depth == 2          \* levels per side carried by a book message
MaxPrice == 3       \* ladders of the scanner specification: prices 1..MaxPrice
MaxVol == 2         \* ladders of the scanner specification: volumes 1..MaxVol
BookMaxPrice == 2   \* ladders of book update messages: prices 1..BookMaxPrice
BookVol == 1        \* ladders of book update messages: volume of a real level
MaxOrderId == 4     \* order ids handed out by order_ids stay <= MaxOrderId
MaxFill == 1        \* fill volumes 1..MaxFill

VARIABLES
    order_ids,        \* next value of itertools.count(1)
    bids, asks,       \* working sets of order ids
    ask_id, ask_price, bid_id, bid_price, position,
    lastEtfBids, lastEtfAsks, lastFutureBids, lastFutureAsks,
    result,           \* value returned by the last get_max_possible_trade call
    out,              \* orders sent by the handler that ran last
    last,             \* the handler that ran last
    arg,              \* the book message handled last, NoArg after another handler
    emitted,          \* history: every order sent so far, oldest first
    failed            \* the handler that ran last raised (IndexError)

ladders == <<lastEtfBids, lastEtfAsks, lastFutureBids, lastFutureAsks>>
ledger == <<bids, asks, ask_id, ask_price, bid_id, bid_price, position>>
vars == <<order_ids, ledger, ladders, result, out, last, arg, emitted, failed>>

Min(a, b) == IF a < b THEN a ELSE b

\* Side.BID / Side.ASK, Lifespan.F, Instrument.ETF / Instrument.FUTURE
BID == "BID"
ASK == "ASK"
LifespanF == "F"
ETF == "ETF"
FUTURE == "FUTURE"

\* ---- ladders as the exchange sends them ----
\* k real levels (positive price and volume, strictly improving-to-worsening
\* prices) followed by (0,0) levels up to Depth entries.
Sentinel == <<0, 0>>

IsAskLadder(l, maxP, vols) ==
    \E k \in 0..Depth :
        /\ \A i \in 1..k : l[i][1] \in 1..maxP /\ l[i][2] \in vols
        /\ \A i \in 1..(k-1) : l[i][1] < l[i+1][1]
        /\ \A i \in (k+1)..Depth : l[i] = Sentinel

IsBidLadder(l, maxP, vols) ==
    \E k \in 0..Depth :
        /\ \A i \in 1..k : l[i][1] \in 1..maxP /\ l[i][2] \in vols
        /\ \A i \in 1..(k-1) : l[i][1] > l[i+1][1]
        /\ \A i \in (k+1)..Depth : l[i] = Sentinel

AllLadders(maxP, vols) == [1..Depth -> (0..maxP) \X ({0} \cup vols)]
AskLadders(maxP, vols) == {l \in AllLadders(maxP, vols) : IsAskLadder(l, maxP, vols)}
BidLadders(maxP, vols) == {l \in AllLadders(maxP, vols) : IsBidLadder(l, maxP, vols)}

\* One instrument's book is never crossed: its best bid is below its best ask
\* whenever both sides have a real level.
Uncrossed(askLadder, bidLadder) ==
    askLadder[1] = Sentinel \/ bidLadder[1] = Sentinel
        \/ bidLadder[1][1] < askLadder[1][1]

\* <<ask ladder, bid ladder>> of one book update message
Books ==
    {b \in AskLadders(BookMaxPrice, {BookVol}) \X BidLadders(BookMaxPrice, {BookVol}) :
        Uncrossed(b[1], b[2])}
ScanAskLadders == AskLadders(MaxPrice, 1..MaxVol)
ScanBidLadders == BidLadders(MaxPrice, 1..MaxVol)

\* ---- get_max_possible_trade (lines 158-186) ----
Acc0 == [max_volume |-> 0, ask_price |-> 0, bid_price |-> 0]

\* inner for-loop (lines 172-176 / 180-184): one ask against bid levels j..
RECURSIVE InnerLoop_assign(_, _, _, _)
InnerLoop_assign(ask, bidLadder, j, acc) ==
    IF j > Len(bidLadder) THEN acc
    ELSE LET bid == bidLadder[j] IN
         IF ask[1] < bid[1]
         THEN InnerLoop_assign(ask, bidLadder, j + 1,
                               [max_volume |-> Min(ask[2], bid[2]),
                                ask_price |-> ask[1], bid_price |-> bid[1]])
         ELSE InnerLoop_assign(ask, bidLadder, j + 1, acc)
RECURSIVE InnerLoop(_, _, _, _)
InnerLoop(ask, bidLadder, j, acc) ==
    IF j > Len(bidLadder) THEN acc
    ELSE LET bid == bidLadder[j] IN
         IF ask[1] < bid[1]
         THEN InnerLoop(ask, bidLadder, j + 1,
                        [max_volume |-> acc.max_volume + Min(ask[2], bid[2]),
                         ask_price |-> ask[1], bid_price |-> bid[1]])
         ELSE InnerLoop(ask, bidLadder, j + 1, acc)

\* outer for-loop (lines 171 / 179): ask levels i..
RECURSIVE OuterLoop(_, _, _, _)
OuterLoop(askLadder, bidLadder, i, acc) ==
    IF i > Len(askLadder) THEN acc
    ELSE OuterLoop(askLadder, bidLadder, i + 1,
                   InnerLoop(askLadder[i], bidLadder, 1, acc))

\* line 170: buy ETF / sell future gate
BidGate_le(etfAsks, futBids) == etfAsks[1][1] <= futBids[1][1]
BidGate(etfAsks, futBids) == etfAsks[1][1] < futBids[1][1]

\* line 178: sell ETF / buy future gate
AskGate(etfBids, futAsks) == etfBids[1][1] > futAsks[1][1]

NoTrade == [etf_price |-> 0, volume |-> 0, side |-> BID, fut_price |-> 0]

get_max_possible_trade_swapped(etfAsks, etfBids, futAsks, futBids) ==
    IF BidGate(etfAsks, futBids)
    THEN LET a == OuterLoop(etfAsks, futBids, 1, Acc0) IN
         [etf_price |-> a.ask_price, volume |-> a.max_volume,
          side |-> BID, fut_price |-> a.bid_price]
    ELSE IF AskGate(etfBids, futAsks)
    THEN LET a == OuterLoop(futAsks, etfBids, 1, Acc0) IN
         [etf_price |-> a.ask_price, volume |-> a.max_volume,
          side |-> ASK, fut_price |-> a.bid_price]
    ELSE NoTrade
get_max_possible_trade(etfAsks, etfBids, futAsks, futBids) ==
    IF BidGate(etfAsks, futBids)
    THEN LET a == OuterLoop(etfAsks, futBids, 1, Acc0) IN
         [etf_price |-> a.ask_price, volume |-> a.max_volume,
          side |-> BID, fut_price |-> a.bid_price]
    ELSE IF AskGate(etfBids, futAsks)
    THEN LET a == OuterLoop(futAsks, etfBids, 1, Acc0) IN
         [etf_price |-> a.bid_price, volume |-> a.max_volume,
          side |-> ASK, fut_price |-> a.ask_price]
    ELSE NoTrade

NoArg == [instrument |-> "", asks |-> <<>>, bids |-> <<>>]

\* ---- __init__ (lines 45-52) ----
InitLadder == <<Sentinel, Sentinel>>

Init ==
    /\ order_ids = 1
    /\ bids = {} /\ asks = {}
    /\ ask_id = 0 /\ ask_price = 0 /\ bid_id = 0 /\ bid_price = 0 /\ position = 0
    /\ lastEtfBids = InitLadder /\ lastEtfAsks = InitLadder
    /\ lastFutureBids = InitLadder /\ lastFutureAsks = InitLadder
    /\ result = NoTrade
    /\ out = <<>>
    /\ last = "init"
    /\ arg = NoArg
    /\ emitted = <<>>
    /\ failed = FALSE

\* The ledger fields as one value, so that a handler's effect is an operator.
Ledger ==
    [bids |-> bids, asks |-> asks, ask_id |-> ask_id, ask_price |-> ask_price,
     bid_id |-> bid_id, bid_price |-> bid_price, position |-> position]

SetLedger(L) ==
    /\ bids' = L.bids /\ asks' = L.asks
    /\ ask_id' = L.ask_id /\ ask_price' = L.ask_price
    /\ bid_id' = L.bid_id /\ bid_price' = L.bid_price
    /\ position' = L.position

\* ---- on_order_book_update_message (lines 74-103) ----
\* line 93
Opportunity(r) == r.etf_price # 0 /\ r.volume # 0

InsertOrder(id, side, price, volume, lifespan) ==
    [msg |-> "insert", id |-> id, side |-> side, price |-> price,
     volume |-> volume, lifespan |-> lifespan]
HedgeOrder(id, side, price, volume) ==
    [msg |-> "hedge", id |-> id, side |-> side, price |-> price, volume |-> volume]

\* lines 97-98 / 102-103: the two sends, id being the next value of order_ids
SentOrders_sameId(r, id) ==
    IF r.side = ASK
    THEN <<InsertOrder(id, r.side, r.etf_price, r.volume, LifespanF),
           HedgeOrder(id, BID, r.fut_price, r.volume)>>
    ELSE <<InsertOrder(id, r.side, r.etf_price, r.volume, LifespanF),
           HedgeOrder(id, ASK, r.fut_price, r.volume)>>
SentOrders_sameSide(r, id) ==
    <<InsertOrder(id, r.side, r.etf_price, r.volume, LifespanF),
      HedgeOrder(id + 1, r.side, r.fut_price, r.volume)>>
SentOrders(r, id) ==
    IF r.side = ASK
    THEN <<InsertOrder(id, r.side, r.etf_price, r.volume, LifespanF),
           HedgeOrder(id + 1, BID, r.fut_price, r.volume)>>
    ELSE <<InsertOrder(id, r.side, r.etf_price, r.volume, LifespanF),
           HedgeOrder(id + 1, ASK, r.fut_price, r.volume)>>

\* lines 85-90: the four ladders after the store
StoredLadders_swapped(instrument, askLadder, bidLadder) ==
    IF instrument = ETF
    THEN [eb |-> askLadder, ea |-> bidLadder,
          fb |-> lastFutureBids, fa |-> lastFutureAsks]
    ELSE [eb |-> lastEtfBids, ea |-> lastEtfAsks,
          fb |-> askLadder, fa |-> bidLadder]
StoredLadders(instrument, askLadder, bidLadder) ==
    IF instrument = ETF
    THEN [eb |-> bidLadder, ea |-> askLadder,
          fb |-> lastFutureBids, fa |-> lastFutureAsks]
    ELSE [eb |-> lastEtfBids, ea |-> lastEtfAsks,
          fb |-> bidLadder, fa |-> askLadder]

\* lines 170 / 178: indexing [0] of an empty ladder raises IndexError; the
\* second test is only evaluated when the first is false
ScanRaises(etfAsks, etfBids, futAsks, futBids) ==
    \/ etfAsks = <<>> \/ futBids = <<>>
    \/ /\ ~BidGate(etfAsks, futBids)
       /\ (etfBids = <<>> \/ futAsks = <<>>)

\* what the history keeps of an order sent
Sent(orders) ==
    [i \in 1..Len(orders) |->
        [id |-> orders[i].id, msg |-> orders[i].msg, side |-> orders[i].side]]

OnOrderBookUpdate(instrument, askLadder, bidLadder) ==
    LET st == StoredLadders(instrument, askLadder, bidLadder)
        r == get_max_possible_trade(st.ea, st.eb, st.fa, st.fb)
    IN  /\ lastEtfBids' = st.eb /\ lastEtfAsks' = st.ea
        /\ lastFutureBids' = st.fb /\ lastFutureAsks' = st.fa
        /\ last' = "book"
        /\ arg' = [instrument |-> instrument, asks |-> askLadder, bids |-> bidLadder]
        /\ UNCHANGED <<bids, asks, position>>
        /\ IF ScanRaises(st.ea, st.eb, st.fa, st.fb)
           THEN /\ failed' = TRUE
                /\ out' = <<>>
                /\ UNCHANGED <<order_ids, ask_price, ask_id, bid_price, bid_id,
                               result, emitted>>
           ELSE /\ failed' = FALSE
                /\ Opportunity(r) => order_ids + 1 <= MaxOrderId
                /\ result' = r
                /\ IF Opportunity(r)
                   THEN /\ IF r.side = ASK
                           THEN /\ ask_price' = r.etf_price
                                /\ ask_id' = order_ids
                                /\ UNCHANGED <<bid_price, bid_id>>
                           ELSE /\ bid_price' = r.etf_price
                                /\ bid_id' = order_ids
                                /\ UNCHANGED <<ask_price, ask_id>>
                        /\ out' = SentOrders(r, order_ids)
                        /\ order_ids' = order_ids + 2
                   ELSE /\ out' = <<>>
                        /\ UNCHANGED <<order_ids, ask_price, ask_id,
                                       bid_price, bid_id>>
                /\ emitted' = emitted \o Sent(out')

BookUpdate ==
    \E instrument \in {ETF, FUTURE} :
    \E book \in Books :
        OnOrderBookUpdate(instrument, book[1], book[2])

\* ---- on_order_filled_message (lines 107-119); price is only logged ----
on_order_filled_message_clear(L, client_order_id, volume) ==
    LET L1 == IF client_order_id = L.bid_id THEN [L EXCEPT !.bid_id = 0]
              ELSE IF client_order_id = L.ask_id THEN [L EXCEPT !.ask_id = 0]
              ELSE L
    IN IF client_order_id \in L.bids
       THEN [L1 EXCEPT !.position = @ + volume]
       ELSE IF client_order_id \in L.asks
       THEN [L1 EXCEPT !.position = @ - volume]
       ELSE L1
on_order_filled_message_else(L, client_order_id, volume) ==
    IF client_order_id \in L.bids
    THEN [L EXCEPT !.position = @ + volume]
    ELSE [L EXCEPT !.position = @ - volume]
on_order_filled_message(L, client_order_id, volume) ==
    IF client_order_id \in L.bids
    THEN [L EXCEPT !.position = @ + volume]
    ELSE IF client_order_id \in L.asks
    THEN [L EXCEPT !.position = @ - volume]
    ELSE L

OrderFilled ==
    \E id \in 0..MaxOrderId : \E volume \in 1..MaxFill :
        /\ SetLedger(on_order_filled_message(Ledger, id, volume))
        /\ out' = <<>>
        /\ last' = "fill"
        /\ arg' = NoArg
        /\ UNCHANGED <<order_ids, ladders, result, emitted, failed>>

\* ---- on_order_status_message (lines 121-142); fill_volume and fees are
\* only logged ----
on_order_status_message_always(L, client_order_id, remaining_volume) ==
    LET L1 == IF client_order_id = L.bid_id
              THEN [L EXCEPT !.bid_id = 0]
              ELSE IF client_order_id = L.ask_id
              THEN [L EXCEPT !.ask_id = 0]
              ELSE L
    IN [L1 EXCEPT !.bids = @ \ {client_order_id},
                  !.asks = @ \ {client_order_id}]
on_order_status_message_else(L, client_order_id, remaining_volume) ==
    IF remaining_volume = 0
    THEN LET L1 == IF client_order_id = L.bid_id
                   THEN [L EXCEPT !.bid_id = 0]
                   ELSE [L EXCEPT !.ask_id = 0]
         IN [L1 EXCEPT !.bids = @ \ {client_order_id},
                       !.asks = @ \ {client_order_id}]
    ELSE L
on_order_status_message(L, client_order_id, remaining_volume) ==
    IF remaining_volume = 0
    THEN LET L1 == IF client_order_id = L.bid_id
                   THEN [L EXCEPT !.bid_id = 0]
                   ELSE IF client_order_id = L.ask_id
                   THEN [L EXCEPT !.ask_id = 0]
                   ELSE L
         IN [L1 EXCEPT !.bids = @ \ {client_order_id},
                       !.asks = @ \ {client_order_id}]
    ELSE L

OrderStatus ==
    \E id \in 0..MaxOrderId : \E remaining_volume \in 0..1 :
        /\ SetLedger(on_order_status_message(Ledger, id, remaining_volume))
        /\ out' = <<>>
        /\ last' = "status"
        /\ arg' = NoArg
        /\ UNCHANGED <<order_ids, ladders, result, emitted, failed>>

\* ---- on_error_message (lines 54-62) ----
on_error_message(L, client_order_id) ==
    IF client_order_id # 0
       /\ (client_order_id \in L.bids \/ client_order_id \in L.asks)
    THEN on_order_status_message(L, client_order_id, 0)
    ELSE L

ErrorMessage ==
    \E id \in 0..MaxOrderId :
        /\ SetLedger(on_error_message(Ledger, id))
        /\ out' = <<>>
        /\ last' = "error"
        /\ arg' = NoArg
        /\ UNCHANGED <<order_ids, ladders, result, emitted, failed>>

\* ---- on_hedge_filled_message (lines 64-72): logging only ----
HedgeFilled ==
    /\ last' = "hedge_filled"
    /\ out' = <<>>
    /\ arg' = NoArg
    /\ UNCHANGED <<order_ids, ledger, ladders, result, emitted, failed>>

\* ---- on_trade_ticks_message (lines 144-156): logging only ----
TradeTicks_store ==
    \E book \in Books :
        /\ lastEtfAsks' = book[1] /\ lastEtfBids' = book[2]
        /\ last' = "trade_ticks"
        /\ out' = <<>>
        /\ arg' = NoArg
        /\ UNCHANGED <<order_ids, ledger, lastFutureBids, lastFutureAsks,
                       result, emitted, failed>>
TradeTicks ==
    /\ last' = "trade_ticks"
    /\ out' = <<>>
    /\ arg' = NoArg
    /\ UNCHANGED <<order_ids, ledger, ladders, result, emitted, failed>>

Next ==
    \/ BookUpdate
    \/ OrderFilled
    \/ OrderStatus
    \/ ErrorMessage
    \/ HedgeFilled
    \/ TradeTicks

Spec == Init /\ [][Next]_vars

\* ---- book messages whose lists carry fewer than Depth levels ----
\* zip (lines 86-90) yields as many levels as the message lists hold
ShortBookUpdate ==
    \E instrument \in {ETF, FUTURE} :
    \E book \in Books :
    \E n \in 0..Depth :
        /\ ~failed
        /\ OnOrderBookUpdate(instrument, SubSeq(book[1], 1, n), SubSeq(book[2], 1, n))

NextShort == ShortBookUpdate

SpecShort == Init /\ [][NextShort]_vars

\* ---- the scanner alone: any four exchange ladders, then one call ----
InitScan ==
    /\ order_ids = 1
    /\ bids = {} /\ asks = {}
    /\ ask_id = 0 /\ ask_price = 0 /\ bid_id = 0 /\ bid_price = 0 /\ position = 0
    /\ lastEtfBids \in ScanBidLadders
    /\ lastEtfAsks \in ScanAskLadders
    /\ lastFutureBids \in ScanBidLadders
    /\ lastFutureAsks \in ScanAskLadders
    /\ Uncrossed(lastEtfAsks, lastEtfBids)
    /\ Uncrossed(lastFutureAsks, lastFutureBids)
    /\ result = NoTrade
    /\ out = <<>>
    /\ last = "init"
    /\ arg = NoArg
    /\ emitted = <<>>
    /\ failed = FALSE

Scan ==
    /\ result' = get_max_possible_trade(lastEtfAsks, lastEtfBids,
                                        lastFutureAsks, lastFutureBids)
    /\ last' = "scan"
    /\ UNCHANGED <<order_ids, ledger, ladders, out, arg, emitted, failed>>

NextScan == Scan

SpecScan == InitScan /\ [][NextScan]_vars

\* ======================= properties =======================
Real(level) == level # Sentinel
Strip(ladder) == SelectSeq(ladder, Real)
Scanned == last = "scan"

\* pairs (ask index, bid index) with ask.price < bid.price
QualifyingPairs(askLadder, bidLadder) ==
    {p \in (1..Len(askLadder)) \X (1..Len(bidLadder)) :
        askLadder[p[1]][1] < bidLadder[p[2]][1]}

RECURSIVE SumMin(_, _, _)
SumMin(S, askLadder, bidLadder) ==
    IF S = {} THEN 0
    ELSE LET p == CHOOSE q \in S : TRUE IN
         Min(askLadder[p[1]][2], bidLadder[p[2]][2])
             + SumMin(S \ {p}, askLadder, bidLadder)

\* the pair met last when ask levels are the outer loop
LastPair(S) ==
    CHOOSE p \in S : \A q \in S : q[1] < p[1] \/ (q[1] = p[1] /\ q[2] <= p[2])

RECURSIVE TotalVolume(_)
TotalVolume(ladder) ==
    IF ladder = <<>> THEN 0 ELSE Head(ladder)[2] + TotalVolume(Tail(ladder))

Inserts == {i \in 1..Len(out) : out[i].msg = "insert"}
Hedges == {i \in 1..Len(out) : out[i].msg = "hedge"}
Opposite(side) == IF side = BID THEN ASK ELSE BID

\* C1: after a book update, a scan result with non-zero price and volume
\* has produced exactly one insert order (lifespan F, reported side, reported
\* ETF price) and exactly one hedge order (opposite side, reported future
\* price) of the same volume; any other scan result has produced no order.
C1_OneOrderOneHedge ==
    last = "book" =>
        LET r == get_max_possible_trade(lastEtfAsks, lastEtfBids,
                                        lastFutureAsks, lastFutureBids)
        IN IF r.etf_price # 0 /\ r.volume # 0
           THEN /\ Len(out) = 2
                /\ Cardinality(Inserts) = 1 /\ Cardinality(Hedges) = 1
                /\ LET o == out[CHOOSE i \in Inserts : TRUE]
                       h == out[CHOOSE i \in Hedges : TRUE]
                   IN /\ o.lifespan = LifespanF
                      /\ o.side = r.side /\ o.price = r.etf_price
                      /\ h.side = Opposite(r.side) /\ h.price = r.fut_price
                      /\ o.volume = h.volume
           ELSE out = <<>>

C1_Witness ==
    /\ last = "book" /\ Len(out) = 2
    /\ out[1].side = BID /\ out[2].side = ASK

\* C2: when neither index-0 gate holds, the scan returns price 0, volume 0
\* and hedge price 0, whatever the deeper levels are.
C2_ClosedGatesNoTrade ==
    (/\ Scanned
     /\ lastEtfAsks[1][1] >= lastFutureBids[1][1]
     /\ lastEtfBids[1][1] <= lastFutureAsks[1][1])
        => result.etf_price = 0 /\ result.volume = 0 /\ result.fut_price = 0

\* both gates closed although a deeper ETF ask level is below a future bid
C2_Witness ==
    /\ Scanned
    /\ lastEtfAsks[1][1] >= lastFutureBids[1][1]
    /\ lastEtfBids[1][1] <= lastFutureAsks[1][1]
    /\ QualifyingPairs(lastEtfAsks, lastFutureBids) # {}
    /\ result = NoTrade

\* C3: one real ETF ask (p_a, v_a), one real future bid (p_b, v_b), p_a < p_b,
\* every other level of the two ladders (0,0): the scan returns
\* (p_a, min(v_a, v_b), BID, p_b).
C3_SingleLevelTrade ==
    (/\ Scanned
     /\ Len(Strip(lastEtfAsks)) = 1 /\ Real(lastEtfAsks[1])
     /\ Len(Strip(lastFutureBids)) = 1 /\ Real(lastFutureBids[1])
     /\ lastEtfAsks[1][1] < lastFutureBids[1][1])
        => result = [etf_price |-> lastEtfAsks[1][1],
                     volume |-> Min(lastEtfAsks[1][2], lastFutureBids[1][2]),
                     side |-> BID,
                     fut_price |-> lastFutureBids[1][1]]

\* C4: the scan result equals the result of the same scan over the ladders
\* with every (0,0) level removed.
C4_SentinelsIgnored ==
    Scanned =>
        result =
            IF BidGate(lastEtfAsks, lastFutureBids)
            THEN LET a == OuterLoop(Strip(lastEtfAsks), Strip(lastFutureBids), 1, Acc0)
                 IN [etf_price |-> a.ask_price, volume |-> a.max_volume,
                     side |-> BID, fut_price |-> a.bid_price]
            ELSE IF AskGate(lastEtfBids, lastFutureAsks)
            THEN LET a == OuterLoop(Strip(lastFutureAsks), Strip(lastEtfBids), 1, Acc0)
                 IN [etf_price |-> a.bid_price, volume |-> a.max_volume,
                     side |-> ASK, fut_price |-> a.ask_price]
            ELSE NoTrade

C6_VolumeWithinBooks ==
    Scanned =>
        IF result.side = BID
        THEN /\ result.volume <= TotalVolume(lastEtfAsks)
             /\ result.volume <= TotalVolume(lastFutureBids)
        ELSE /\ result.volume <= TotalVolume(lastEtfBids)
             /\ result.volume <= TotalVolume(lastFutureAsks)

\* C7: a fill of volume v for the id resting on the bid side raises position
\* by v, for the id resting on the ask side lowers it by v.
C7_FillMovesPosition ==
    \A i \in 1..MaxOrderId : \A v \in 1..MaxFill :
        /\ i = bid_id => on_order_filled_message(Ledger, i, v).position = position + v
        /\ i = ask_id => on_order_filled_message(Ledger, i, v).position = position - v

\* C8: an error for the id resting on a side leaves that side's slot 0 and the
\* id in neither working set, as a status with remaining volume 0 would; the
\* error handler sends no order.
C8_ErrorRetiresOrder ==
    /\ \A i \in 1..MaxOrderId :
          (i = bid_id \/ i = ask_id) =>
              LET L == on_error_message(Ledger, i) IN
              /\ i = bid_id => L.bid_id = 0
              /\ i = ask_id => L.ask_id = 0
              /\ i \notin L.bids /\ i \notin L.asks
              /\ L = on_order_status_message(Ledger, i, 0)
    /\ last = "error" => out = <<>>

\* C9: no insert order is sent on a side whose resting-id slot is non-zero.
C9_OneRestingPerSide ==
    [][(last' = "book" /\ out' # <<>>) =>
          /\ out'[1].side = BID => bid_id = 0
          /\ out'[1].side = ASK => ask_id = 0]_vars

\* C11: a fill for an id that is in neither working set leaves the whole
\* ledger, position included, as it was.
C11_UnknownFillIgnored ==
    \A id \in 0..MaxOrderId : \A v \in 1..MaxFill :
        (id \notin bids /\ id \notin asks) =>
            on_order_filled_message(Ledger, id, v) = Ledger

\* a fill was handled after an order had been sent, position untouched
C11_Witness ==
    /\ last = "fill" /\ emitted # <<>>
    /\ bids = {} /\ asks = {} /\ position = 0

\* C12: each stored ladder always has the full number of entries and the
\* update handler never fails, short messages included.
C12_FixedSizeLadders ==
    /\ Len(lastEtfBids) = Depth /\ Len(lastEtfAsks) = Depth
    /\ Len(lastFutureBids) = Depth /\ Len(lastFutureAsks) = Depth
    /\ ~failed

\* C13: position changes only in the fill handler; the fill handler changes
\* no resting-id slot and no working set; a resting-id slot goes from
\* non-zero to 0 only in the status handler or the error handler.
C13_LedgerFrame ==
    [][/\ position' # position => last' = "fill"
       /\ last' = "fill" =>
              /\ bid_id' = bid_id /\ ask_id' = ask_id
              /\ bids' = bids /\ asks' = asks
       /\ (bid_id # 0 /\ bid_id' = 0) => last' \in {"status", "error"}
       /\ (ask_id # 0 /\ ask_id' = 0) => last' \in {"status", "error"}]_vars

\* a fill was handled while both sides had a resting id, both kept
C13_Witness ==
    last = "fill" /\ bid_id # 0 /\ ask_id # 0

\* C14: a handler other than the book update sends no order, takes no order
\* id and leaves the four ladders alone; orders are sent by book updates only.
C14_OnlyBookUpdatesTrade ==
    [][/\ last' # "book" =>
              /\ out' = <<>> /\ order_ids' = order_ids
              /\ ladders' = ladders
       /\ emitted' # emitted => last' = "book"]_vars

\* trade ticks were handled after orders had been sent
C14_Witness ==
    last = "trade_ticks" /\ Len(emitted) >= 2 /\ out = <<>>

\* C15: right after a book update that sent an insert order with id i on side
\* S at price p, i is in S's working set only, S's resting id is i and S's
\* resting price is p.
C15_OrderRegistered ==
    (last = "book" /\ out # <<>>) =>
        LET o == out[1] IN
        IF o.side = BID
        THEN /\ o.id \in bids /\ o.id \notin asks
             /\ bid_id = o.id /\ bid_price = o.price
        ELSE /\ o.id \in asks /\ o.id \notin bids
             /\ ask_id = o.id /\ ask_price = o.price

\* C16: a book update stores the message's ladders for its instrument, leaves
\* the other instrument's ladders alone, and scans the ladders so stored.
C16_BookFrame ==
    [][last' = "book" =>
          /\ arg'.instrument = ETF =>
                 /\ lastEtfAsks' = arg'.asks /\ lastEtfBids' = arg'.bids
                 /\ lastFutureAsks' = lastFutureAsks
                 /\ lastFutureBids' = lastFutureBids
                 /\ result' = get_max_possible_trade(arg'.asks, arg'.bids,
                                                     lastFutureAsks, lastFutureBids)
          /\ arg'.instrument = FUTURE =>
                 /\ lastFutureAsks' = arg'.asks /\ lastFutureBids' = arg'.bids
                 /\ lastEtfAsks' = lastEtfAsks
                 /\ lastEtfBids' = lastEtfBids
                 /\ result' = get_max_possible_trade(lastEtfAsks, lastEtfBids,
                                                     arg'.asks, arg'.bids)]_vars

\* a future update traded against ETF asks stored by an earlier update
C16_Witness ==
    /\ last = "book" /\ arg.instrument = FUTURE
    /\ Real(lastEtfAsks[1]) /\ out # <<>>

\* C17: a status with remaining volume not 0 changes nothing; with remaining
\* volume 0 it removes the id from both working sets and zeroes exactly the
\* slots that hold the id.
C17_StatusEffect ==
    \A id \in 0..MaxOrderId :
        /\ on_order_status_message(Ledger, id, 1) = Ledger
        /\ on_order_status_message(Ledger, id, 0) =
               [Ledger EXCEPT !.bids = @ \ {id}, !.asks = @ \ {id},
                              !.bid_id = IF @ = id THEN 0 ELSE @,
                              !.ask_id = IF @ = id THEN 0 ELSE @]

\* a status was handled while the bid slot held id 3, the older bid id 1
\* having been overwritten
C17_Witness ==
    /\ last = "status" /\ bid_id = 3
    /\ \E i \in 1..Len(emitted) :
          emitted[i] = [id |-> 1, msg |-> "insert", side |-> BID]

C19_OrderIds ==
    /\ emitted # <<>> => emitted[1].id = 1
    /\ \A i \in 1..Len(emitted) : emitted[i].id >= 1
    /\ \A i \in 1..(Len(emitted) - 1) : emitted[i].id < emitted[i + 1].id
    /\ \A i \in 1..Len(emitted) :
          emitted[i].msg = "hedge" =>
              /\ i > 1 /\ emitted[i - 1].msg = "insert"
              /\ emitted[i].id = emitted[i - 1].id + 1
    /\ bid_id # 0 =>
          \E i \in 1..Len(emitted) :
              emitted[i] = [id |-> bid_id, msg |-> "insert", side |-> BID]
    /\ ask_id # 0 =>
          \E i \in 1..Len(emitted) :
              emitted[i] = [id |-> ask_id, msg |-> "insert", side |-> ASK]

\* two updates have traded, one on each side, and both ids still rest
C19_Witness ==
    Len(emitted) = 4 /\ bid_id # 0 /\ ask_id # 0 /\ last = "book"

\* C20: every order sent by a book update has a price above 0 and a volume
\* above 0.
C20_WellFormedOrders ==
    last = "book" =>
        \A i \in 1..Len(out) : out[i].price > 0 /\ out[i].volume > 0

\* C10: handling a status with remaining volume 0 twice for the same id
\* leaves the ledger as handling it once does.
C10_StatusIdempotent ==
    \A id \in 0..MaxOrderId :
        LET once == on_order_status_message(Ledger, id, 0)
        IN on_order_status_message(once, id, 0) = once

\* a status has cleared the bid slot while an ask order is still resting
C10_Witness ==
    /\ last = "status"
    /\ bid_price # 0 /\ bid_id = 0 /\ ask_id # 0
====
